---------------------------- MODULE Spec2Model ----------------------------
(***************************************************************************)
(* Turn-gap analytics of the latency calculator.                           *)
(*                                                                         *)
(*   src/latency_from_utterances.py  transcribe_audio, process_transcript, *)
(*                                   calculate_summary_stats, main (CLI)   *)
(*   src/main.py                     process_uploaded_files, analyze_audio *)
(*                                                                         *)
(* A state is one batch run: the batch of files with the outcome the       *)
(* transcription service has for each, the position of the driver's loop,  *)
(* the summary rows collected so far, and the loop body's locals (turns,   *)
(* stats) as the last iteration left them.  One action is one whole        *)
(* iteration of a driver's loop, or the code that follows the loop.        *)
(*                                                                         *)
(* Representation.  A Python value that is either a number or the empty    *)
(* string "" is a sequence of length at most one: <<>> is "", <<v>> is v.  *)
(* Times and gaps are integer milliseconds.  The four rounded statistics   *)
(* (avg, median, overlap rate, avg positive) are integers counting         *)
(* hundredths: round(x, 2) = h / 100.  Faults of the file system (open,    *)
(* copy, mkdtemp) are not modelled.                                        *)
(***************************************************************************)
EXTENDS Integers, Sequences, FiniteSets, TLC

VARIABLES driver, files, idx, all_summaries, run, http_status, turns, stats

vars == <<driver, files, idx, all_summaries, run, http_status, turns, stats>>

(***************************************************************************)
(* Bounds of the model.                                                    *)
(***************************************************************************)
MaxLen == 3        \* utterances per transcript, specification Spec
MaxTime == 2       \* start and end times range over 0..MaxTime, Spec
MaxFiles == 2      \* files per batch, specification SpecBatch
MaxBatchLen == 2   \* utterances per transcript, SpecBatch
MaxLong == 22      \* utterances per transcript, specification SpecLong
Period == 10       \* distance between the start times of a long transcript

Speakers == {"A", "B"}
Texts == {"hola"}

(***************************************************************************)
(* Optional values: "" or a number.                                        *)
(***************************************************************************)
Absent == <<>>
Some(v) == <<v>>
Val(o) == o[1]

None == [none |-> TRUE]
EmptyDict == [k \in {} |-> 0]

(***************************************************************************)
(* Helpers on sequences of integers.                                       *)
(***************************************************************************)
RECURSIVE SumSeq(_)
SumSeq(s) == IF s = <<>> THEN 0 ELSE Head(s) + SumSeq(Tail(s))

Min(a, b) == IF a <= b THEN a ELSE b

\* sorted(xs) on a list of integers
RECURSIVE InsertInt(_, _)
InsertInt(s, x) ==
    IF s = <<>> THEN <<x>>
    ELSE IF x < Head(s) THEN <<x>> \o s
    ELSE <<Head(s)>> \o InsertInt(Tail(s), x)

RECURSIVE SortedInts(_)
SortedInts(s) ==
    IF s = <<>> THEN <<>>
    ELSE InsertInt(SortedInts(SubSeq(s, 1, Len(s) - 1)), s[Len(s)])

\* round(num / den, 2) in hundredths, den > 0.  Python rounds the float
\* num / den to the nearest hundredth, an exact tie to the even one; for
\* den < 40 the float's side of a tie is that of the exact quotient.
round2(num, den) ==
    LET x == num * 100
        q == x \div den
        r == x % den
    IN  IF 2 * r > den THEN q + 1
        ELSE IF 2 * r = den THEN q + (q % 2)
        ELSE q

\* statistics.median of a sorted non-empty list, then round(.., 2), hundredths
median(sorted_gaps) ==
    LET n == Len(sorted_gaps)
    IN  IF n % 2 = 1 THEN 100 * sorted_gaps[(n + 1) \div 2]
        ELSE round2(sorted_gaps[n \div 2] + sorted_gaps[n \div 2 + 1], 2)

(***************************************************************************)
(* transcribe_audio: the transcript when the service completed it, None    *)
(* when it reported an error, another status, or the call raised.          *)
(***************************************************************************)
TranscriptStatus == {"completed", "error", "processing", "raised"}

transcribe_audio(file) ==
    IF file.status = "raised" THEN None
    ELSE IF file.status = "error" THEN None
    ELSE IF file.status # "completed" THEN None
    ELSE [utterances |-> file.utterances]

(***************************************************************************)
(* sorted(utterances, key=lambda u: u.start): Python's sort is stable.     *)
(***************************************************************************)
\* a sort that is not stable: an utterance goes before those of equal start
RECURSIVE InsertByStartUnstable(_, _)
InsertByStartUnstable(s, u) ==
    IF s = <<>> THEN <<u>>
    ELSE IF u.start <= Head(s).start THEN <<u>> \o s
    ELSE <<Head(s)>> \o InsertByStartUnstable(Tail(s), u)

RECURSIVE InsertByStart(_, _)
InsertByStart(s, u) ==
    IF s = <<>> THEN <<u>>
    ELSE IF u.start < Head(s).start THEN <<u>> \o s
    ELSE <<Head(s)>> \o InsertByStart(Tail(s), u)

RECURSIVE sorted_utterances(_)
sorted_utterances(utterances) ==
    IF utterances = <<>> THEN <<>>
    ELSE InsertByStart(sorted_utterances(SubSeq(utterances, 1, Len(utterances) - 1)),
                       utterances[Len(utterances)])

(***************************************************************************)
(* process_transcript                                                      *)
(***************************************************************************)
turn_data(su, i, audio_filename) ==
    LET utterance == su[i]
        start_ms == utterance.start
        end_ms == utterance.end
        has_next == i - 1 < Len(su) - 1
        next_utterance == su[i + 1]
    IN  [file |-> audio_filename,
         turn_index |-> (i - 1) + 1,
         speaker |-> utterance.speaker,
         start_ms |-> start_ms,
         end_ms |-> end_ms,
         duration_ms |-> end_ms - start_ms,
         text |-> utterance.text,
         next_speaker |-> IF has_next THEN next_utterance.speaker ELSE "",
         next_start_ms |-> IF has_next THEN Some(next_utterance.start) ELSE Absent,
         gap_to_next_ms |-> IF has_next THEN Some(next_utterance.start - end_ms)
                            ELSE Absent,
         speaker_change |-> IF has_next THEN utterance.speaker # next_utterance.speaker
                            ELSE FALSE]

\* turn_index = idx, without the + 1
process_transcript_zero_based(transcript, audio_filename) ==
    IF transcript.utterances = <<>> THEN <<>>
    ELSE LET su == sorted_utterances(transcript.utterances)
         IN  [i \in 1..Len(su) |->
                [turn_data(su, i, audio_filename) EXCEPT !.turn_index = i - 1]]

\* speaker_change = (speaker != next_speaker) computed for the last turn too
process_transcript_last_compared(transcript, audio_filename) ==
    IF transcript.utterances = <<>> THEN <<>>
    ELSE LET su == sorted_utterances(transcript.utterances)
         IN  [i \in 1..Len(su) |->
                LET t == turn_data(su, i, audio_filename)
                IN  [t EXCEPT !.speaker_change = (t.speaker # t.next_speaker)]]

\* gap_to_next_ms = max(0, next_start_ms - end_ms)
process_transcript_clamped(transcript, audio_filename) ==
    IF transcript.utterances = <<>> THEN <<>>
    ELSE LET su == sorted_utterances(transcript.utterances)
         IN  [i \in 1..Len(su) |->
                LET t == turn_data(su, i, audio_filename)
                IN  [t EXCEPT !.gap_to_next_ms =
                        IF @ # Absent /\ Val(@) < 0 THEN Some(0) ELSE @]]

process_transcript(transcript, audio_filename) ==
    IF transcript.utterances = <<>> THEN <<>>
    ELSE LET su == sorted_utterances(transcript.utterances)
         IN  [i \in 1..Len(su) |-> turn_data(su, i, audio_filename)]

(***************************************************************************)
(* calculate_summary_stats                                                 *)
(***************************************************************************)
\* [turn["gap_to_next_ms"] for turn in turns
\*      if turn.get("speaker_change") and turn.get("gap_to_next_ms") != ""]
RECURSIVE change_gaps(_)
change_gaps(ts) ==
    IF ts = <<>> THEN <<>>
    ELSE (IF Head(ts).speaker_change /\ Head(ts).gap_to_next_ms # Absent
          THEN <<Val(Head(ts).gap_to_next_ms)>> ELSE <<>>)
         \o change_gaps(Tail(ts))

\* [turn["gap_to_next_ms"] for turn in turns if turn.get("gap_to_next_ms") != ""]
RECURSIVE all_gaps(_)
all_gaps(ts) ==
    IF ts = <<>> THEN <<>>
    ELSE (IF Head(ts).gap_to_next_ms # Absent
          THEN <<Val(Head(ts).gap_to_next_ms)>> ELSE <<>>)
         \o all_gaps(Tail(ts))

\* the speaker-change filter dropped: every defined gap, always
speaker_change_gaps_unfiltered(ts) == all_gaps(ts)

\* the list the statistics are computed over
speaker_change_gaps(ts) ==
    IF change_gaps(ts) # <<>> THEN change_gaps(ts) ELSE all_gaps(ts)

RECURSIVE negative_gaps(_)
negative_gaps(gaps) ==
    IF gaps = <<>> THEN <<>>
    ELSE (IF Head(gaps) < 0 THEN <<Head(gaps)>> ELSE <<>>) \o negative_gaps(Tail(gaps))

RECURSIVE positive_gaps(_)
positive_gaps(gaps) ==
    IF gaps = <<>> THEN <<>>
    ELSE (IF Head(gaps) > 0 THEN <<Head(gaps)>> ELSE <<>>) \o positive_gaps(Tail(gaps))

\* int(len(sorted_gaps) * 0.9)
p90_index(n) == (n * 90) \div 100

\* int(len(sorted_gaps) * 0.95): the float product truncates to
\* floor(19 n / 20) for every n below 100000
p95_index(n) == (n * 95) \div 100

\* sorted_gaps[min(p95_index, len(sorted_gaps) - 1)], round(.., 2) of an int
p95_gap_ms(sorted_gaps) ==
    sorted_gaps[Min(p95_index(Len(sorted_gaps)), Len(sorted_gaps) - 1) + 1]

\* positive_gaps = [g for g in speaker_change_gaps if g >= 0]
RECURSIVE nonnegative_gaps(_)
nonnegative_gaps(gaps) ==
    IF gaps = <<>> THEN <<>>
    ELSE (IF Head(gaps) >= 0 THEN <<Head(gaps)>> ELSE <<>>)
         \o nonnegative_gaps(Tail(gaps))

avg_nonnegative_gap_ms(gaps) ==
    LET pos == nonnegative_gaps(gaps)
    IN  IF pos # <<>> THEN Some(round2(SumSeq(pos), Len(pos))) ELSE Absent

\* round(sum(positive_gaps) / len(positive_gaps), 2) if positive_gaps else ""
avg_positive_gap_ms(gaps) ==
    LET pos == positive_gaps(gaps)
    IN  IF pos # <<>> THEN Some(round2(SumSeq(pos), Len(pos))) ELSE Absent

\* the statistics of a non-empty list of gaps
gap_stats(gaps) ==
    [avg_gap_ms |-> Some(round2(SumSeq(gaps), Len(gaps))),
     median_gap_ms |-> Some(median(SortedInts(gaps))),
     p95_gap_ms |-> Some(p95_gap_ms(SortedInts(gaps))),
     overlap_rate |-> Some(round2(Len(negative_gaps(gaps)) * 100, Len(gaps))),
     avg_positive_gap_ms |-> avg_positive_gap_ms(gaps)]

\* no gap at all reported as zeros instead of ""
calculate_summary_stats_zeros(ts) ==
    IF ts = <<>> THEN EmptyDict
    ELSE LET gaps == speaker_change_gaps(ts)
         IN  IF gaps = <<>>
             THEN [avg_gap_ms |-> Some(0),
                   median_gap_ms |-> Some(0),
                   p95_gap_ms |-> Some(0),
                   overlap_rate |-> Some(0),
                   avg_positive_gap_ms |-> Absent]
             ELSE gap_stats(gaps)

calculate_summary_stats(ts) ==
    IF ts = <<>> THEN EmptyDict
    ELSE LET gaps == speaker_change_gaps(ts)
         IN  IF gaps = <<>>
             THEN [avg_gap_ms |-> Absent,
                   median_gap_ms |-> Absent,
                   p95_gap_ms |-> Absent,
                   overlap_rate |-> Absent,
                   avg_positive_gap_ms |-> Absent]
             ELSE gap_stats(gaps)

(***************************************************************************)
(* The summary row both drivers build for a file with at least one turn.   *)
(***************************************************************************)
\* sum(1 for t in turns if t.get("next_speaker")): every turn that has a next
RECURSIVE num_turns_with_next(_)
num_turns_with_next(ts) ==
    IF ts = <<>> THEN 0
    ELSE (IF Head(ts).next_speaker # "" THEN 1 ELSE 0) + num_turns_with_next(Tail(ts))

\* sum(1 for t in turns if t.get("speaker_change"))
RECURSIVE num_speaker_changes(_)
num_speaker_changes(ts) ==
    IF ts = <<>> THEN 0
    ELSE (IF Head(ts).speaker_change THEN 1 ELSE 0) + num_speaker_changes(Tail(ts))

summary(name, ts, st) ==
    [file |-> name, turns |-> Len(ts), speaker_changes |-> num_speaker_changes(ts)] @@ st

(***************************************************************************)
(* The CLI driver: the loop of main, then save_summary_csv.                *)
(***************************************************************************)
CliIteration ==
    /\ driver = "cli"
    /\ run = "running"
    /\ idx <= Len(files)
    /\ LET audio_file == files[idx]
           transcript == transcribe_audio(audio_file)
           t == process_transcript(transcript, audio_file.name)
       IN  IF transcript = None
           THEN UNCHANGED <<turns, stats, all_summaries>>
           ELSE IF t = <<>>
           THEN /\ turns' = t
                /\ UNCHANGED <<stats, all_summaries>>
           ELSE /\ turns' = t
                /\ stats' = calculate_summary_stats(t)
                /\ all_summaries' =
                       Append(all_summaries,
                              summary(audio_file.name, t, calculate_summary_stats(t)))
    /\ idx' = idx + 1
    /\ UNCHANGED <<driver, files, run, http_status>>

CliFinish ==
    /\ driver = "cli"
    /\ run = "running"
    /\ idx > Len(files)
    /\ run' = "done"
    /\ UNCHANGED <<driver, files, idx, all_summaries, http_status, turns, stats>>

(***************************************************************************)
(* The HTTP driver: the loop of process_uploaded_files, then the rest of   *)
(* analyze_audio.  An HTTPException ends the request with its status code. *)
(***************************************************************************)
HttpIteration ==
    /\ driver = "http"
    /\ run = "running"
    /\ idx <= Len(files)
    /\ LET uploaded_file == files[idx]
           transcript == transcribe_audio(uploaded_file)
           t == process_transcript(transcript, uploaded_file.name)
       IN  IF ~uploaded_file.supported
           THEN /\ run' = "failed"
                /\ http_status' = 400
                /\ UNCHANGED <<idx, turns, stats, all_summaries>>
           ELSE IF transcript = None
           THEN /\ run' = "failed"
                /\ http_status' = 500
                /\ UNCHANGED <<idx, turns, stats, all_summaries>>
           ELSE IF t = <<>>
           THEN /\ turns' = t
                /\ idx' = idx + 1
                /\ UNCHANGED <<run, http_status, stats, all_summaries>>
           ELSE /\ turns' = t
                /\ stats' = calculate_summary_stats(t)
                /\ all_summaries' =
                       Append(all_summaries,
                              summary(uploaded_file.name, t, calculate_summary_stats(t)))
                /\ idx' = idx + 1
                /\ UNCHANGED <<run, http_status>>
    /\ UNCHANGED <<driver, files>>

HttpFinish ==
    /\ driver = "http"
    /\ run = "running"
    /\ idx > Len(files)
    /\ IF all_summaries = <<>>
       THEN run' = "failed" /\ http_status' = 400
       ELSE run' = "done" /\ http_status' = 200
    /\ UNCHANGED <<driver, files, idx, all_summaries, turns, stats>>

Next == CliIteration \/ CliFinish \/ HttpIteration \/ HttpFinish

(***************************************************************************)
(* Batches.  A file is its name (its position in the batch), whether its   *)
(* extension is supported, and what the transcription service answers for  *)
(* it.  The CLI lists only files with a supported extension; both drivers  *)
(* reject an empty batch before the loop.                                  *)
(***************************************************************************)
Utterances(T) ==
    {u \in [speaker : Speakers, start : 0..T, end : 0..T, text : Texts] :
        u.end >= u.start}

SeqsUpTo(S, n) == UNION {[1..k -> S] : k \in 0..n}

FileOutcomes(transcripts) ==
    {[supported |-> TRUE, status |-> "completed", utterances |-> us] : us \in transcripts}
    \cup {[supported |-> TRUE, status |-> s, utterances |-> <<>>] :
              s \in TranscriptStatus \ {"completed"}}
    \cup {[supported |-> FALSE, status |-> "raised", utterances |-> <<>>]}

Batch(outcomes) ==
    [i \in 1..Len(outcomes) |->
        [name |-> i, supported |-> outcomes[i].supported,
         status |-> outcomes[i].status, utterances |-> outcomes[i].utterances]]

InitWith(batches) ==
    /\ driver \in {"cli", "http"}
    /\ files \in batches
    /\ driver = "cli" => \A i \in 1..Len(files) : files[i].supported
    /\ idx = 1
    /\ all_summaries = <<>>
    /\ run = "running"
    /\ http_status = 0
    /\ turns = <<>>
    /\ stats = EmptyDict

\* one file, every transcript of at most MaxLen utterances
Init ==
    InitWith({Batch(<<o>>) : o \in FileOutcomes(SeqsUpTo(Utterances(MaxTime), MaxLen))})

Spec == Init /\ [][Next]_vars

(***************************************************************************)
(* Batches of up to MaxFiles files, each transcript a list of at most      *)
(* MaxBatchLen of three utterances: A speaks, B starts before A ends, A    *)
(* starts again when B ends.                                               *)
(***************************************************************************)
BatchUtterances ==
    {[speaker |-> "A", start |-> 0, end |-> 2, text |-> "hola"],
     [speaker |-> "B", start |-> 1, end |-> 3, text |-> "hola"],
     [speaker |-> "A", start |-> 3, end |-> 4, text |-> "hola"]}

InitBatch ==
    InitWith({Batch(os) :
                os \in UNION {[1..n -> FileOutcomes(SeqsUpTo(BatchUtterances, MaxBatchLen))] :
                                 n \in 1..MaxFiles}})

SpecBatch == InitBatch /\ [][Next]_vars

(***************************************************************************)
(* Long transcripts, one file.  In time order turn j starts at             *)
(* (j - 1) * Period; the first k gaps are hi and the others lo; the        *)
(* speakers never change, change at every turn, or change at every second  *)
(* turn.  The service lists the utterances latest first.                   *)
(***************************************************************************)
GapValues == {-3, 0, 4}
Patterns == {"same", "alternate", "pairs"}

LongSpeaker(j, pattern) ==
    IF pattern = "same" THEN "A"
    ELSE IF pattern = "alternate" THEN (IF j % 2 = 1 THEN "A" ELSE "B")
    ELSE (IF ((j - 1) \div 2) % 2 = 0 THEN "A" ELSE "B")

LongTranscript(n, k, lo, hi, pattern) ==
    [i \in 1..n |->
        LET j == n + 1 - i
        IN  [speaker |-> LongSpeaker(j, pattern),
             start |-> (j - 1) * Period,
             end |-> IF j < n THEN j * Period - (IF j <= k THEN hi ELSE lo)
                     ELSE (j - 1) * Period + Period,
             text |-> "hola"]]

LongTranscripts ==
    {LongTranscript(n, k, lo, hi, pattern) :
        n \in 1..MaxLong, k \in 0..MaxLong, lo \in GapValues, hi \in GapValues,
        pattern \in Patterns}

InitLong ==
    InitWith({Batch(<<o>>) : o \in FileOutcomes(LongTranscripts)})

SpecLong == InitLong /\ [][Next]_vars

(***************************************************************************)
(* What the properties speak of.                                           *)
(***************************************************************************)
\* the loop has just passed a file whose transcription completed: turns is
\* what process_transcript returned for it
Processed == idx > 1 /\ files[idx - 1].status = "completed"
Input == files[idx - 1].utterances
NTurns == Len(turns)

\* the utterance a turn record carries
UtteranceOf(t) ==
    [speaker |-> t.speaker, start |-> t.start_ms, end |-> t.end_ms, text |-> t.text]
TurnUtterances == [k \in 1..NTurns |-> UtteranceOf(turns[k])]

Count(seq, x) == Cardinality({k \in 1..Len(seq) : seq[k] = x})

\* the turns whose gaps are selected: those with a speaker change when there
\* is one, every turn but the last otherwise
ChangeTurns == {k \in 1..NTurns : turns[k].speaker_change}
Selected == IF ChangeTurns # {} THEN ChangeTurns ELSE {k \in 1..NTurns : k < NTurns}
GapAt(k) == Val(turns[k].gap_to_next_ms)

RECURSIVE SumGapsAt(_)
SumGapsAt(S) ==
    IF S = {} THEN 0
    ELSE LET k == CHOOSE x \in S : TRUE IN GapAt(k) + SumGapsAt(S \ {k})

\* h hundredths is num / den rounded to two decimals
Near(h, num, den) ==
    LET d == h * den - 100 * num IN 2 * d <= den /\ -2 * d <= den

StatNames ==
    {"avg_gap_ms", "median_gap_ms", "p95_gap_ms", "overlap_rate", "avg_positive_gap_ms"}

\* file i was passed by the loop and its transcription had completed
Passed(i) == i < idx /\ files[i].status = "completed"
RowsOf(i) == {j \in 1..Len(all_summaries) : all_summaries[j].file = files[i].name}

(***************************************************************************)
(* C1.  In both drivers, whatever the transcription answers for each file  *)
(* of a batch of supported files: the run does not fail, the loop passes   *)
(* every file, and the finished run's summary holds exactly one row for    *)
(* each file that completed with at least one turn, in batch order.        *)
(***************************************************************************)
GoodFiles ==
    {i \in 1..Len(files) : files[i].status = "completed" /\ files[i].utterances # <<>>}

C1_FailuresIsolated ==
    (\A i \in 1..Len(files) : files[i].supported) =>
        /\ run # "failed"
        /\ run = "done" =>
            /\ idx = Len(files) + 1
            /\ Len(all_summaries) = Cardinality(GoodFiles)
            /\ \A j \in 1..Len(all_summaries) :
                    /\ all_summaries[j].file \in GoodFiles
                    /\ \A l \in 1..Len(all_summaries) :
                           j < l => all_summaries[j].file < all_summaries[l].file

(***************************************************************************)
(* C2.  process_transcript returns one record per utterance: the records   *)
(* carry the input utterances, each as often as the input holds it, in     *)
(* ascending start order, and the k-th record has turn_index k.            *)
(***************************************************************************)
C2_OneTurnPerUtterance ==
    Processed =>
        /\ NTurns = Len(Input)
        /\ \A k \in 1..NTurns :
              /\ turns[k].turn_index = k
              /\ turns[k].file = files[idx - 1].name
              /\ turns[k].duration_ms = turns[k].end_ms - turns[k].start_ms
              /\ Count(TurnUtterances, TurnUtterances[k]) = Count(Input, TurnUtterances[k])
        /\ \A k \in 1..NTurns - 1 : turns[k].start_ms <= turns[k + 1].start_ms

C2_Witness ==
    /\ Processed
    /\ NTurns >= 3
    /\ Input[1].start > Input[2].start

(***************************************************************************)
(* C3.  The last record has speaker_change false and no next_speaker,      *)
(* next_start_ms or gap_to_next_ms; every other record has all three, and  *)
(* speaker_change exactly when its speaker differs from the next turn's.   *)
(***************************************************************************)
C3_LastTurnTerminal ==
    Processed /\ NTurns >= 1 =>
        /\ turns[NTurns].speaker_change = FALSE
        /\ turns[NTurns].next_speaker = ""
        /\ turns[NTurns].next_start_ms = Absent
        /\ turns[NTurns].gap_to_next_ms = Absent
        /\ \A k \in 1..NTurns - 1 :
              /\ turns[k].next_speaker = turns[k + 1].speaker
              /\ turns[k].next_speaker # ""
              /\ turns[k].next_start_ms = Some(turns[k + 1].start_ms)
              /\ turns[k].gap_to_next_ms # Absent
              /\ turns[k].speaker_change = (turns[k].speaker # turns[k + 1].speaker)

C3_Witness ==
    /\ Processed
    /\ NTurns >= 3
    /\ turns[1].speaker_change
    /\ ~turns[2].speaker_change

(***************************************************************************)
(* C4.  The gap of a turn that is not the last is the next turn's start    *)
(* minus its own end, negative and zero values included; a file of two or  *)
(* more turns has its statistics defined even when every gap is zero.      *)
(***************************************************************************)
C4_GapExact ==
    Processed =>
        /\ \A k \in 1..NTurns - 1 :
              turns[k].gap_to_next_ms = Some(turns[k + 1].start_ms - turns[k].end_ms)
        /\ NTurns >= 2 => \A f \in StatNames \ {"avg_positive_gap_ms"} : stats[f] # Absent
        /\ (NTurns >= 2 /\ \A k \in 1..NTurns - 1 : GapAt(k) = 0) =>
              /\ stats.avg_gap_ms = Some(0)
              /\ stats.p95_gap_ms = Some(0)

C4_Witness ==
    /\ Processed
    /\ NTurns >= 3
    /\ GapAt(1) < 0
    /\ GapAt(2) = 0

(***************************************************************************)
(* C5.  The records are in ascending start order, and for every start time *)
(* the records with that start are the input utterances with that start,   *)
(* in the input's order (a stable sort, hence a permutation).              *)
(***************************************************************************)
C5_StableSort ==
    Processed =>
        /\ \A k \in 1..NTurns - 1 : turns[k].start_ms <= turns[k + 1].start_ms
        /\ \A t \in {Input[k].start : k \in 1..Len(Input)} :
              LET AtT(u) == u.start = t
              IN  SelectSeq(TurnUtterances, AtT) = SelectSeq(Input, AtT)

C5_Witness ==
    /\ Processed
    /\ Len(Input) >= 3
    /\ Input[1].start = Input[2].start
    /\ Input[1] # Input[2]
    /\ Input[3].start < Input[1].start

(***************************************************************************)
(* C6.  The statistics are those of the selected gaps: of the turns with a *)
(* speaker change when there is one, of every turn but the last otherwise. *)
(* The average and the overlap rate are those of that set.                 *)
(***************************************************************************)
C6_SelectedGapSet ==
    Processed /\ Selected # {} =>
        LET n == Cardinality(Selected)
            neg == Cardinality({k \in Selected : GapAt(k) < 0})
        IN  /\ stats.avg_gap_ms # Absent
            /\ Near(Val(stats.avg_gap_ms), SumGapsAt(Selected), n)
            /\ stats.overlap_rate # Absent
            /\ Near(Val(stats.overlap_rate), 100 * neg, n)

C6_Witness ==
    /\ Processed
    /\ NTurns >= 3
    /\ ChangeTurns # {}
    /\ \E k \in 1..NTurns - 1 : k \notin ChangeTurns /\ GapAt(k) < 0

(***************************************************************************)
(* C7.  p95_gap_ms is the selected gap at 0-based position                 *)
(* min(floor(0.95 n), n - 1) of the ascending order: a selected gap with   *)
(* at most that many selected gaps below it and more than that many not    *)
(* above it; for n < 20 it is the largest selected gap.                    *)
(***************************************************************************)
C7_P95NearestRank ==
    Processed /\ Selected # {} =>
        LET n == Cardinality(Selected)
            i == Min((n * 95) \div 100, n - 1)
        IN  /\ stats.p95_gap_ms # Absent
            /\ \E k \in Selected : GapAt(k) = Val(stats.p95_gap_ms)
            /\ Cardinality({k \in Selected : GapAt(k) < Val(stats.p95_gap_ms)}) <= i
            /\ Cardinality({k \in Selected : GapAt(k) <= Val(stats.p95_gap_ms)}) >= i + 1
            /\ n < 20 => \A k \in Selected : GapAt(k) <= Val(stats.p95_gap_ms)

C7_Witness ==
    /\ Processed
    /\ Cardinality(Selected) >= 21
    /\ \E k \in Selected : GapAt(k) > Val(stats.p95_gap_ms)

(***************************************************************************)
(* C8 as stated.  A passed file of zero or one utterance has a summary row *)
(* with turns = N, speaker_changes = 0 and the five statistics absent.     *)
(***************************************************************************)
EmptyRow(r, n) ==
    /\ r.turns = n
    /\ r.speaker_changes = 0
    /\ DOMAIN r = {"file", "turns", "speaker_changes"} \cup StatNames
    /\ \A f \in StatNames : r[f] = Absent

C8_NoGapRowEmitted ==
    \A i \in 1..Len(files) :
        Passed(i) /\ Len(files[i].utterances) <= 1 =>
            \E j \in RowsOf(i) : EmptyRow(all_summaries[j], Len(files[i].utterances))

(***************************************************************************)
(* C8 amended.  A passed file of exactly one utterance has one summary row *)
(* with turns = 1, speaker_changes = 0 and the five statistics absent; a   *)
(* passed file of no utterance has no summary row; and a run that failed   *)
(* inside the loop did not stop at a file whose transcription completed.   *)
(***************************************************************************)
C8_OneTurnRowZeroTurnsSkipped ==
    /\ \A i \in 1..Len(files) :
          Passed(i) =>
              /\ Len(files[i].utterances) = 1 =>
                    /\ Cardinality(RowsOf(i)) = 1
                    /\ \A j \in RowsOf(i) : EmptyRow(all_summaries[j], 1)
              /\ Len(files[i].utterances) = 0 => RowsOf(i) = {}
    /\ (run = "failed" /\ idx <= Len(files)) => files[idx].status # "completed"

C8_Witness ==
    \E i \in 1..Len(files) :
        /\ Passed(i)
        /\ Len(files[i].utterances) = 1
        /\ i + 1 < idx
        /\ Passed(i + 1)

(***************************************************************************)
(* C9.  avg_positive_gap_ms is the mean of the selected gaps above zero,   *)
(* and absent when no selected gap is above zero, the other four           *)
(* statistics being present all the same.                                  *)
(***************************************************************************)
C9_AvgPositive ==
    Processed /\ Selected # {} =>
        LET P == {k \in Selected : GapAt(k) > 0}
        IN  /\ P = {} =>
                  /\ stats.avg_positive_gap_ms = Absent
                  /\ \A f \in StatNames \ {"avg_positive_gap_ms"} : stats[f] # Absent
            /\ P # {} =>
                  /\ stats.avg_positive_gap_ms # Absent
                  /\ Near(Val(stats.avg_positive_gap_ms), SumGapsAt(P), Cardinality(P))

C9_Witness ==
    /\ Processed
    /\ \E k \in Selected : GapAt(k) > 0
    /\ \E k \in Selected : GapAt(k) = 0

(***************************************************************************)
(* C10.  The row of the file just processed has turns = N and              *)
(* speaker_changes = the number of turns whose speaker differs from the    *)
(* next turn's, between 0 and N - 1; the list the statistics are computed  *)
(* over has speaker_changes elements when that is at least 1, and N - 1    *)
(* elements when it is 0 and N >= 2.                                       *)
(***************************************************************************)
C10_ChangesCountAgrees ==
    Processed /\ NTurns >= 1 =>
        LET r == all_summaries[Len(all_summaries)]
            D == {k \in 1..NTurns - 1 : turns[k].speaker # turns[k + 1].speaker}
            G == speaker_change_gaps(turns)
        IN  /\ r.file = files[idx - 1].name
            /\ r.turns = NTurns
            /\ r.speaker_changes = Cardinality(D)
            /\ 0 <= r.speaker_changes /\ r.speaker_changes <= r.turns - 1
            /\ r.speaker_changes >= 1 => Len(G) = r.speaker_changes
            /\ (r.speaker_changes = 0 /\ r.turns >= 2) => Len(G) = r.turns - 1
            /\ Len(G) >= 1 => Near(Val(r.avg_gap_ms), SumSeq(G), Len(G))

C10_Witness ==
    /\ Processed
    /\ NTurns >= 4
    /\ all_summaries[Len(all_summaries)].speaker_changes >= 1
    /\ all_summaries[Len(all_summaries)].speaker_changes < NTurns - 1

====
